---------------------------- MODULE Spec2Model ----------------------------
(***************************************************************************)
(* Model of the identifier resolver, the container namer and the job       *)
(* container cleanup of the OneFuzz command-line client                    *)
(* (src/src/cli/onefuzz/api.py).                                           *)
(*                                                                         *)
(* Strings are sequences of one-character strings, so that prefixes,       *)
(* joins, regular-expression matches and the bytes fed to SHA-1 are        *)
(* computed character by character.                                        *)
(***************************************************************************)
EXTENDS Integers, Sequences, FiniteSets, TLC

(***************************************************************************)
(* State                                                                   *)
(***************************************************************************)

VARIABLES
  pools,     \* the service: the names of its pools, in the order Pool.list returns them
  jobs,      \* the service: the ids of its jobs, in the order Jobs.list returns them
  pc,        \* the client: "idle", or "done" when an operation has ended
  op,        \* the operation that ended: its name and its identifier argument
  res,       \* the outcome of its identifier resolution
  sent,      \* the requests it sent to the service, in order
  endpoint,  \* the client: self._backend.config.endpoint
  naming,    \* the call of build_container_name that ended: its arguments and result
  deployed,  \* an earlier naming, whose result a container of the service now bears
  configs,   \* the service: the config of each job, in the order of jobs
  tasks,     \* the service: its tasks, in the order Tasks.list returns them
  store,     \* the service: the names of the storage containers that exist
  runs       \* the client: each call of JobContainers.delete, by the caller making it

resolverVars == << pools, jobs, op, res, sent >>

namerVars == << endpoint, naming, deployed >>

cleanupVars == << configs, tasks, store, runs >>

vars ==
  << pools, jobs, pc, op, res, sent, endpoint, naming, deployed,
     configs, tasks, store, runs >>

(***************************************************************************)
(* Characters and strings                                                  *)
(***************************************************************************)

\* A string literal as the sequence of its characters.
Chars(s) == [i \in 1..Len(s) |-> SubSeq(s, i, i)]

\* The characters of the model, by ASCII range.
Digits == Chars("0123456789")

Uppers == Chars("ABCDEFGHIJKLMNOPQRSTUVWXYZ")

Lowers == Chars("abcdefghijklmnopqrstuvwxyz")

IndexOf(c, table) == CHOOSE i \in 1..Len(table) : table[i] = c

IsIn(c, table) == \E i \in 1..Len(table) : table[i] = c

\* str.encode(): the byte of an ASCII character.
Ord(c) ==
  CASE IsIn(c, Lowers) -> 96 + IndexOf(c, Lowers)
    [] IsIn(c, Digits) -> 47 + IndexOf(c, Digits)
    [] IsIn(c, Uppers) -> 64 + IndexOf(c, Uppers)
    [] c = "-" -> 45
    [] c = "." -> 46
    [] c = ":" -> 58
    [] c = "_" -> 95

HexDigits == Chars("0123456789abcdef")

LowerHex == { HexDigits[i] : i \in 1..16 }

UpperHex == { "A", "B", "C", "D", "E", "F" }

\* int(c, 16): the value of one hexadecimal digit, either case.
HexVal(c) ==
  IF c \in UpperHex THEN Ord(c) - 55 ELSE IndexOf(c, HexDigits) - 1

\* str.lower() on one character.
LowerChar(c) == IF IsIn(c, Uppers) THEN Lowers[IndexOf(c, Uppers)] ELSE c

Lower(s) == [i \in 1..Len(s) |-> LowerChar(s[i])]

\* Variant: the value may stand anywhere in x.
StartsWithAnywhere(x, value) ==
  \E k \in 0..(Len(x) - Len(value)) : \A i \in 1..Len(value) : x[k + i] = value[i]

\* Variant: the prefix is compared without regard to letter case.
StartsWithIgnoreCase(x, value) ==
  /\ Len(value) <= Len(x)
  /\ \A i \in 1..Len(value) : LowerChar(x[i]) = LowerChar(value[i])

\* str.startswith
StartsWith(x, value) ==
  /\ Len(value) <= Len(x)
  /\ \A i \in 1..Len(value) : x[i] = value[i]

\* [x for x in xs if x.startswith(value)], order kept
RECURSIVE FilterPrefix(_, _)
FilterPrefix(xs, value) ==
  IF xs = << >>
    THEN << >>
    ELSE IF StartsWith(Head(xs), value)
           THEN << Head(xs) >> \o FilterPrefix(Tail(xs), value)
           ELSE FilterPrefix(Tail(xs), value)

\* value in values
InList(value, values) == \E i \in 1..Len(values) : values[i] = value

\* sep.join(parts)
RECURSIVE Join(_, _)
Join(sep, parts) ==
  IF parts = << >>
    THEN << >>
    ELSE IF Len(parts) = 1
           THEN parts[1]
           ELSE parts[1] \o sep \o Join(sep, Tail(parts))

\* str.replace(old, new) for one-character old
Replace(s, old, new) == [i \in 1..Len(s) |-> IF s[i] = old THEN new ELSE s[i]]

(***************************************************************************)
(* SHA-1 (FIPS 180-4) on bytes.  A 32-bit word is a pair <<hi, lo>> of     *)
(* 16-bit halves, so that no intermediate value exceeds 31 bits.           *)
(***************************************************************************)

Pow2(n) == 2 ^ n

Half == 65536

\* x AND y for 4-bit x and y, at [x + 1][y + 1].
AndTable ==
  << <<  0,  0,  0,  0,  0,  0,  0,  0,  0,  0,  0,  0,  0,  0,  0,  0 >>,
     <<  0,  1,  0,  1,  0,  1,  0,  1,  0,  1,  0,  1,  0,  1,  0,  1 >>,
     <<  0,  0,  2,  2,  0,  0,  2,  2,  0,  0,  2,  2,  0,  0,  2,  2 >>,
     <<  0,  1,  2,  3,  0,  1,  2,  3,  0,  1,  2,  3,  0,  1,  2,  3 >>,
     <<  0,  0,  0,  0,  4,  4,  4,  4,  0,  0,  0,  0,  4,  4,  4,  4 >>,
     <<  0,  1,  0,  1,  4,  5,  4,  5,  0,  1,  0,  1,  4,  5,  4,  5 >>,
     <<  0,  0,  2,  2,  4,  4,  6,  6,  0,  0,  2,  2,  4,  4,  6,  6 >>,
     <<  0,  1,  2,  3,  4,  5,  6,  7,  0,  1,  2,  3,  4,  5,  6,  7 >>,
     <<  0,  0,  0,  0,  0,  0,  0,  0,  8,  8,  8,  8,  8,  8,  8,  8 >>,
     <<  0,  1,  0,  1,  0,  1,  0,  1,  8,  9,  8,  9,  8,  9,  8,  9 >>,
     <<  0,  0,  2,  2,  0,  0,  2,  2,  8,  8, 10, 10,  8,  8, 10, 10 >>,
     <<  0,  1,  2,  3,  0,  1,  2,  3,  8,  9, 10, 11,  8,  9, 10, 11 >>,
     <<  0,  0,  0,  0,  4,  4,  4,  4,  8,  8,  8,  8, 12, 12, 12, 12 >>,
     <<  0,  1,  0,  1,  4,  5,  4,  5,  8,  9,  8,  9, 12, 13, 12, 13 >>,
     <<  0,  0,  2,  2,  4,  4,  6,  6,  8,  8, 10, 10, 12, 12, 14, 14 >>,
     <<  0,  1,  2,  3,  4,  5,  6,  7,  8,  9, 10, 11, 12, 13, 14, 15 >> >>

And4(x, y) == AndTable[x + 1][y + 1]

And16(x, y) ==
  And4(x % 16, y % 16)
    + 16 * And4((x \div 16) % 16, (y \div 16) % 16)
    + 256 * And4((x \div 256) % 16, (y \div 256) % 16)
    + 4096 * And4(x \div 4096, y \div 4096)

Xor16(x, y) == x + y - 2 * And16(x, y)

Not16(x) == 65535 - x

\* The round functions of SHA-1 on 16-bit values.
\* f: "ch" (x AND y) OR (NOT x AND z); "parity" x XOR y XOR z; "maj" majority.
Bits3(f, x, y, z) ==
  CASE f = "ch" -> And16(x, y) + And16(Not16(x), z)
    [] f = "parity" -> Xor16(Xor16(x, y), z)
    [] OTHER -> And16(x, y) + And16(z, Xor16(x, y))

WordF(f, x, y, z) == << Bits3(f, x[1], y[1], z[1]), Bits3(f, x[2], y[2], z[2]) >>

WordXor(x, y) == << Xor16(x[1], y[1]), Xor16(x[2], y[2]) >>

\* Rotate left by n, 0 < n < 16.
RotlSmall(w, n) ==
  << ((w[1] * Pow2(n)) % Half) + (w[2] \div Pow2(16 - n)),
     ((w[2] * Pow2(n)) % Half) + (w[1] \div Pow2(16 - n)) >>

\* Rotate left by n, 0 < n < 32, n # 16.
Rotl(w, n) == IF n < 16 THEN RotlSmall(w, n) ELSE RotlSmall(<< w[2], w[1] >>, n - 16)

\* Sum modulo 2^32 of a sequence of at most 5 words.
RECURSIVE SumHalf(_, _)
SumHalf(ws, h) == IF ws = << >> THEN 0 ELSE Head(ws)[h] + SumHalf(Tail(ws), h)

\* The operands are evaluated once: v is their value.
WordAdd(ws) ==
  CHOOSE sum \in { << (SumHalf(v, 1) + (SumHalf(v, 2) \div Half)) % Half,
                        SumHalf(v, 2) % Half >> : v \in { ws } } : TRUE

\* The message padded to a multiple of 64 bytes: 0x80, zeros, 64-bit bit length.
Sha1Pad(bytes) ==
  LET n == Len(bytes)
      zeros == (119 - n) % 64
      bits == 8 * n
  IN  bytes \o << 128 >> \o [i \in 1..zeros |-> 0]
        \o << 0, 0, 0, 0, 0, 0, (bits \div 256) % 256, bits % 256 >>

\* Word t (0..15) of block b (0-based) of the padded message.
BlockWord(p, b, t) ==
  LET o == 64 * b + 4 * t
  IN  << p[o + 1] * 256 + p[o + 2], p[o + 3] * 256 + p[o + 4] >>

\* The message schedule W[0..79] as a sequence W[1..80], extended from w up to
\* stop words.
RECURSIVE ScheduleUpTo(_, _, _, _)
ScheduleUpTo(p, b, w, stop) ==
  IF Len(w) = stop
    THEN w
    ELSE LET t == Len(w)
             next == IF t < 16
                       THEN BlockWord(p, b, t)
                       ELSE Rotl(WordXor(WordF("parity", w[t - 2], w[t - 7], w[t - 13]),
                                         w[t - 15]), 1)
         IN  CHOOSE all \in { ScheduleUpTo(p, b, longer, stop) :
                                longer \in { Append(w, next) } } : TRUE

Schedule(p, b) ==
  CHOOSE w80 \in
    { ScheduleUpTo(p, b, w60, 80) :
        w60 \in { ScheduleUpTo(p, b, w40, 60) :
          w40 \in { ScheduleUpTo(p, b, w20, 40) :
            w20 \in { ScheduleUpTo(p, b, << >>, 20) } } } } : TRUE

Sha1K(t) ==
  CASE t < 20 -> << 23170, 31129 >>   \* 5A827999
    [] t < 40 -> << 28377, 60321 >>   \* 6ED9EBA1
    [] t < 60 -> << 36635, 48348 >>   \* 8F1BBCDC
    [] OTHER  -> << 51810, 49622 >>   \* CA62C1D6

Sha1Op(t) ==
  CASE t < 20 -> "ch"
    [] t < 40 -> "parity"
    [] t < 60 -> "maj"
    [] OTHER  -> "parity"

\* Rounds t .. stop - 1 on the working state s = <<a, b, c, d, e>>.
RECURSIVE RoundsUpTo(_, _, _, _)
RoundsUpTo(w, s, t, stop) ==
  IF t = stop
    THEN s
    ELSE LET tmp == WordAdd(<< Rotl(s[1], 5), WordF(Sha1Op(t), s[2], s[3], s[4]),
                               s[5], Sha1K(t), w[t + 1] >>)
         IN  CHOOSE last \in { RoundsUpTo(w, after, u, stop) :
                                 after \in { << tmp, s[1], Rotl(s[2], 30), s[3], s[4] >> },
                                 u \in { t + 1 } } : TRUE

\* The 80 rounds.
Rounds(w, s) ==
  CHOOSE s80 \in
    { RoundsUpTo(w, s60, 60, 80) :
        s60 \in { RoundsUpTo(w, s40, 40, 60) :
          s40 \in { RoundsUpTo(w, s20, 20, 40) :
            s20 \in { RoundsUpTo(w, s, 0, 20) } } } } : TRUE

Sha1Init ==
  << << 26437, 8961 >>,    \* 67452301
     << 61389, 43913 >>,   \* EFCDAB89
     << 39098, 56574 >>,   \* 98BADCFE
     << 4146, 21622 >>,    \* 10325476
     << 50130, 57840 >> >> \* C3D2E1F0

RECURSIVE Sha1Blocks(_, _, _)
Sha1Blocks(p, b, h) ==
  IF 64 * b >= Len(p)
    THEN h
    ELSE CHOOSE last \in
           { Sha1Blocks(p, b + 1, [i \in 1..5 |-> WordAdd(<< h[i], s[i] >>)]) :
               s \in { Rounds(w, h) : w \in { Schedule(p, b) } } } : TRUE

\* The 20 bytes of the digest.
Sha1(bytes) ==
  CHOOSE digest \in
    { [i \in 1..20 |->
         LET w == h[((i - 1) \div 4) + 1]
             k == (i - 1) % 4
         IN  CASE k = 0 -> w[1] \div 256
               [] k = 1 -> w[1] % 256
               [] k = 2 -> w[2] \div 256
               [] OTHER -> w[2] % 256] :
        h \in { Sha1Blocks(p, 0, Sha1Init) : p \in { Sha1Pad(bytes) } } } : TRUE

(***************************************************************************)
(* UUIDs.  A uuid.UUID object is [type |-> "UUID", v |-> its 32 lowercase  *)
(* hexadecimal digits]; a Python str is [type |-> "str", v |-> its         *)
(* characters].                                                            *)
(***************************************************************************)

StrObj(s) == [type |-> "str", v |-> s]

UuidObj(hex) == [type |-> "UUID", v |-> hex]

None == [type |-> "None", v |-> << >>]

\* UUID_RE: the sizes of the groups of [a-f0-9]; a "-?" stands between two groups,
\* "^" before the first and "\Z" after the last.
UUID_RE == << 8, 4, 4, 4, 12 >>

\* re.match of a pattern of hexadecimal groups separated by optional hyphens,
\* from position pos of s to the end of s.
RECURSIVE MatchGroups(_, _, _)
MatchGroups(s, pos, groups) ==
  IF groups = << >>
    THEN pos = Len(s) + 1
    ELSE LET after == pos + Head(groups)
         IN  /\ after - 1 <= Len(s)
             /\ \A i \in pos..(after - 1) : s[i] \in LowerHex
             /\ IF Tail(groups) # << >> /\ after <= Len(s) /\ s[after] = "-"
                  THEN MatchGroups(s, after + 1, Tail(groups))
                  ELSE MatchGroups(s, after, Tail(groups))

\* Variant: the hyphens are accepted all four together or not at all.
is_uuid_all_or_none(value) ==
  /\ MatchGroups(value, 1, UUID_RE)
  /\ Len(value) \in { 32, 36 }

is_uuid(value) == MatchGroups(value, 1, UUID_RE)

RemoveHyphens(s) == SelectSeq(s, LAMBDA c : c # "-")

\* uuid.UUID(s): the hyphens are removed, 32 hexadecimal digits of either case must
\* remain, and the value is kept in lowercase; anything else raises ValueError.
UuidParseOk(s) ==
  LET hex == RemoveHyphens(s)
  IN  Len(hex) = 32 /\ \A i \in 1..32 : hex[i] \in LowerHex \cup UpperHex

UUID(s) == UuidObj(Lower(RemoveHyphens(s)))

\* str(uuid): the digits grouped 8-4-4-4-12.
UuidStr(u) ==
  SubSeq(u.v, 1, 8) \o << "-" >> \o SubSeq(u.v, 9, 12) \o << "-" >> \o SubSeq(u.v, 13, 16)
    \o << "-" >> \o SubSeq(u.v, 17, 20) \o << "-" >> \o SubSeq(u.v, 21, 32)

(***************************************************************************)
(* Bounds and input domains                                                *)
(***************************************************************************)

\* The longest pool name, short token, and distinguishing stem of a job id.
MaxLen == 2

\* The most pools, or jobs, the service holds.
MaxCands == 2

StrsUpTo(alphabet, n) == UNION { [1..k -> alphabet] : k \in 0..n }

ListsUpTo(elements, n) == UNION { [1..k -> elements] : k \in 0..n }

NameAlphabet == { "a", "A" }

HexAlphabet == { "a", "b" }

PoolNames == StrsUpTo(NameAlphabet, MaxLen) \ { << >> }

\* A job id: a stem of hexadecimal digits followed by zeros.
Pad(stem) == UuidObj(stem \o [i \in 1..(32 - Len(stem)) |-> "0"])

\* The ids the service may hold share their leading digits: a0.., aa0.., ...
JobIds == { Pad(stem) : stem \in StrsUpTo({ "a" }, MaxLen) \ { << >> } }

\* An id no job of the service has.
AbsentJobId == Pad(<< "b" >>)

Upper(s) ==
  [i \in 1..Len(s) |-> IF IsIn(s[i], Lowers) THEN Uppers[IndexOf(s[i], Lowers)] ELSE s[i]]

\* The ways a caller may write a job id in full or nearly so: str(uuid), uuid.hex,
\* with the first hyphen only, in upper case, and cut after 9 or 35 characters.
FullForms(u) ==
  { UuidStr(u), u.v, SubSeq(UuidStr(u), 1, 9) \o SubSeq(u.v, 9, 32),
    Upper(UuidStr(u)), SubSeq(UuidStr(u), 1, 9), SubSeq(UuidStr(u), 1, 35) }

NameTokens == StrsUpTo(NameAlphabet, MaxLen)

UuidTokens ==
  { StrObj(s) : s \in StrsUpTo(HexAlphabet, MaxLen) \cup { << "A" >> }
                       \cup UNION { FullForms(u) : u \in JobIds \cup { AbsentJobId } } }
    \cup JobIds \cup { AbsentJobId }

\* The most builds a project has.
NumBuilds == 2

Projects == { Chars("a"), Chars("a:b") }

JobNames == { Chars("c"), Chars("b:c") }

Builds == { << Digits[i + 1] >> : i \in 1..NumBuilds }

\* enums.OS
OS == { "windows", "linux" }

\* JobContainers.delete: SAFE_TO_REMOVE
SAFE_TO_REMOVE ==
  { "crashes", "crashdumps", "setup", "inputs", "reports", "unique_inputs",
    "unique_reports", "no_repro", "analysis", "coverage", "readonly_inputs",
    "regression_reports" }

\* Members of enums.ContainerType that SAFE_TO_REMOVE leaves out.
OtherContainerTypes == { "tools", "logs" }

ContainerType == SAFE_TO_REMOVE \cup OtherContainerTypes

Endpoints == { << >>, Chars("e") }

(***************************************************************************)
(* Endpoint._disambiguate and Endpoint._disambiguate_uuid                  *)
(***************************************************************************)

\* The outcome of a resolution: a returned value, or the exception raised with the
\* arguments of its message; calls counts the invocations of the enumerator func.
Returned(value, calls) ==
  [raised |-> "none", value |-> value, name |-> "", token |-> << >>,
   values |-> << >>, calls |-> calls]

Raised(what, name, value, values, calls) ==
  [raised |-> what, value |-> None, name |-> name, token |-> value,
   values |-> values, calls |-> calls]

\* Variant: every value passes the check.
CheckAlways(check, value) == TRUE

\* The check argument: is_uuid, or "lambda x: False".
Check(check, value) == IF check = "is_uuid" THEN is_uuid(value) ELSE FALSE

\* Variant: several matches are ambiguous even when the value is one of them.
disambiguate_no_exact(name, value, check, func) ==
  IF check = "is_uuid" /\ is_uuid(value)
    THEN Returned(StrObj(value), 0)
    ELSE LET values == FilterPrefix(func, value)
         IN  IF Len(values) = 1
               THEN Returned(StrObj(values[1]), 1)
               ELSE IF Len(values) > 1
                      THEN Raised("expands to multiple values", name, value,
                                  Join(<< "," >>, values), 1)
                      ELSE Raised("Unable to find based on prefix", name, value,
                                  << >>, 1)

\* Variant: a value that matches nothing is handed back as it is.
disambiguate_keep_unmatched(name, value, check, func) ==
  IF check = "is_uuid" /\ is_uuid(value)
    THEN Returned(StrObj(value), 0)
    ELSE LET values == FilterPrefix(func, value)
         IN  IF Len(values) = 1
               THEN Returned(StrObj(values[1]), 1)
               ELSE IF Len(values) > 1
                      THEN IF InList(value, values)
                             THEN Returned(StrObj(value), 1)
                             ELSE Raised("expands to multiple values", name, value,
                                         Join(<< "," >>, values), 1)
                      ELSE Returned(StrObj(value), 1)

\* Variant: the ambiguity message names the first match only.
disambiguate_first_only(name, value, check, func) ==
  IF check = "is_uuid" /\ is_uuid(value)
    THEN Returned(StrObj(value), 0)
    ELSE LET values == FilterPrefix(func, value)
         IN  IF Len(values) = 1
               THEN Returned(StrObj(values[1]), 1)
               ELSE IF Len(values) > 1
                      THEN IF InList(value, values)
                             THEN Returned(StrObj(value), 1)
                             ELSE Raised("expands to multiple values", name, value,
                                         values[1], 1)
                      ELSE Raised("Unable to find based on prefix", name, value,
                                  << >>, 1)

\* Variant: the enumerator is called before the check.
disambiguate_enumerate_first(name, value, check, func) ==
  LET values == FilterPrefix(func, value)
  IN  IF check = "is_uuid" /\ is_uuid(value)
        THEN Returned(StrObj(value), 1)
        ELSE IF Len(values) = 1
               THEN Returned(StrObj(values[1]), 1)
               ELSE IF Len(values) > 1
                      THEN IF InList(value, values)
                             THEN Returned(StrObj(value), 1)
                             ELSE Raised("expands to multiple values", name, value,
                                         Join(<< "," >>, values), 1)
                      ELSE Raised("Unable to find based on prefix", name, value,
                                  << >>, 1)

\* Variant: the value wins over several matches only when it is the first of them.
disambiguate_exact_first(name, value, check, func) ==
  IF Check(check, value)
    THEN Returned(StrObj(value), 0)
    ELSE LET values == FilterPrefix(func, value)
         IN  IF Len(values) = 1
               THEN Returned(StrObj(values[1]), 1)
               ELSE IF Len(values) > 1
                      THEN IF values[1] = value
                             THEN Returned(StrObj(value), 1)
                             ELSE Raised("expands to multiple values", name, value,
                                         Join(<< "," >>, values), 1)
                      ELSE Raised("Unable to find based on prefix", name, value,
                                  << >>, 1)

\* Variant: an empty value matches nothing.
disambiguate_rejects_empty(name, value, check, func) ==
  IF Check(check, value)
    THEN Returned(StrObj(value), 0)
    ELSE LET values == IF value = << >> THEN << >> ELSE FilterPrefix(func, value)
         IN  IF Len(values) = 1
               THEN Returned(StrObj(values[1]), 1)
               ELSE IF Len(values) > 1
                      THEN IF InList(value, values)
                             THEN Returned(StrObj(value), 1)
                             ELSE Raised("expands to multiple values", name, value,
                                         Join(<< "," >>, values), 1)
                      ELSE Raised("Unable to find based on prefix", name, value,
                                  << >>, 1)

\* Variant: when nothing matches, the enumerator is called a second time.
disambiguate_retries(name, value, check, func) ==
  IF Check(check, value)
    THEN Returned(StrObj(value), 0)
    ELSE LET values == FilterPrefix(func, value)
         IN  IF Len(values) = 1
               THEN Returned(StrObj(values[1]), 1)
               ELSE IF Len(values) > 1
                      THEN IF InList(value, values)
                             THEN Returned(StrObj(value), 1)
                             ELSE Raised("expands to multiple values", name, value,
                                         Join(<< "," >>, values), 1)
                      ELSE Raised("Unable to find based on prefix", name, value,
                                  << >>, 2)

\* func is the list the enumerator returns when it is called.
disambiguate(name, value, check, func) ==
  IF Check(check, value)
    THEN Returned(StrObj(value), 0)
    ELSE LET values == FilterPrefix(func, value)
         IN  IF Len(values) = 1
               THEN Returned(StrObj(values[1]), 1)
               ELSE IF Len(values) > 1
                      THEN IF InList(value, values)
                             THEN Returned(StrObj(value), 1)
                             ELSE Raised("expands to multiple values", name, value,
                                         Join(<< "," >>, values), 1)
                      ELSE Raised("Unable to find based on prefix", name, value,
                                  << >>, 1)

disambiguate_uuid(name, value, func) ==
  IF value.type = "UUID"
    THEN Returned(value, 0)
    ELSE LET r == disambiguate(name, value.v, "is_uuid", func)
         IN  IF r.raised # "none"
               THEN r
               ELSE IF UuidParseOk(r.value.v)
                      THEN Returned(UUID(r.value.v), r.calls)
                      ELSE Raised("ValueError", name, value.v, << >>, r.calls)

(***************************************************************************)
(* Utils.namespaced_guid and Utils.build_container_name                    *)
(***************************************************************************)

\* Variant: the namespace was generated anew.
ONEFUZZ_GUID_NAMESPACE_regenerated == UUID(Chars("27f25e3f-6544-4b69-b309-9b096c5a9cbd"))

\* This was generated randomly and should be preserved moving forwards
ONEFUZZ_GUID_NAMESPACE == UUID(Chars("27f25e3f-6544-4b69-b309-9b096c5a9cbc"))

\* uuid.bytes: the 16 bytes of the 32 digits.
UuidBytes(u) == [i \in 1..16 |-> 16 * HexVal(u.v[2 * i - 1]) + HexVal(u.v[2 * i])]

\* bytes.hex()
HexOfBytes(bytes) ==
  [i \in 1..(2 * Len(bytes)) |->
     IF i % 2 = 1
       THEN HexDigits[(bytes[(i + 1) \div 2] \div 16) + 1]
       ELSE HexDigits[(bytes[i \div 2] % 16) + 1]]

\* str.encode("utf-8") of an ASCII string
Encode(s) == [i \in 1..Len(s) |-> Ord(s[i])]

\* uuid.uuid5(namespace, name): the first 16 bytes of SHA-1(namespace.bytes + name),
\* with the version (5) in the high half of byte 6 and the variant (binary 10) in
\* the two high bits of byte 8, bytes counted from 0.
uuid5(namespace, name) ==
  CHOOSE u \in
    { UuidObj(HexOfBytes([i \in 1..16 |->
                            CASE i = 7 -> 80 + (hash[7] % 16)
                              [] i = 9 -> 128 + (hash[9] % 64)
                              [] OTHER -> hash[i]])) :
        hash \in { Sha1(UuidBytes(namespace) \o Encode(name)) } } : TRUE

\* An Optional[str] is << >> (None) or << s >>.
Some(s) == << s >>

\* enums.OS: the name of a member.
OsName(os) == Chars(os)

\* enums.ContainerType: the name of a member.
ContainerTypeName(container_type) == Chars(container_type)

\* The joined strings the model's naming keys give rise to, each hashed once.
JoinedStrings ==
  { Join(<< ":" >>, << k[1], k[2] >> \o k[3] \o k[4]) :
      k \in { << project, name, build, platform >> :
                project \in Projects, name \in JobNames,
                build \in { << >> } \cup { Some(b) : b \in Builds },
                platform \in { << >> } \cup { Some(OsName(os)) : os \in OS } } }

Uuid5Memo ==
  { << s, uuid5(ONEFUZZ_GUID_NAMESPACE, s) >> : s \in JoinedStrings }

\* uuid5 under the fixed namespace, looked up where it was already computed.
NamespaceUuid5(s) == (CHOOSE m \in Uuid5Memo : m[1] = s)[2]

\* name, build and platform are Optional[str].
namespaced_guid(project, name, build, platform) ==
  LET identifiers == << project >> \o name \o build \o platform
  IN  NamespaceUuid5(Join(<< ":" >>, identifiers))

\* Variant: the name carries the instance the client is configured for.
build_container_name_per_instance(container_type, project, name, build, platform) ==
  LET guid == IF container_type \in { "setup", "coverage" }
                THEN namespaced_guid(project, Some(name), Some(build),
                                     Some(OsName(platform)))
                ELSE IF container_type = "regression_reports"
                       THEN namespaced_guid(project, Some(name), Some(build), << >>)
                       ELSE namespaced_guid(project, Some(name), << >>, << >>)
  IN  Chars("oft-") \o endpoint \o Replace(ContainerTypeName(container_type), "_", "-")
        \o << "-" >> \o guid.v

\* Variant: every container type is named from the whole key.
build_container_name_full_key(container_type, project, name, build, platform) ==
  Chars("oft-") \o Replace(ContainerTypeName(container_type), "_", "-") \o << "-" >>
    \o namespaced_guid(project, Some(name), Some(build), Some(OsName(platform))).v

\* Variant: setup and coverage are named like regression_reports, without the platform.
build_container_name_no_platform(container_type, project, name, build, platform) ==
  LET guid == IF container_type \in { "setup", "coverage", "regression_reports" }
                THEN namespaced_guid(project, Some(name), Some(build), << >>)
                ELSE namespaced_guid(project, Some(name), << >>, << >>)
  IN  Chars("oft-") \o Replace(ContainerTypeName(container_type), "_", "-")
        \o << "-" >> \o guid.v

build_container_name(container_type, project, name, build, platform) ==
  LET guid == IF container_type \in { "setup", "coverage" }
                THEN namespaced_guid(project, Some(name), Some(build),
                                     Some(OsName(platform)))
                ELSE IF container_type = "regression_reports"
                       THEN namespaced_guid(project, Some(name), Some(build), << >>)
                       ELSE namespaced_guid(project, Some(name), << >>, << >>)
  IN  Chars("oft-") \o Replace(ContainerTypeName(container_type), "_", "-")
        \o << "-" >> \o guid.v

(***************************************************************************)
(* Jobs, tasks and their containers                                        *)
(***************************************************************************)

\* models.JobConfig
JobConfig(project, name, build) == [project |-> project, name |-> name, build |-> build]

\* models.Job
Job(job_id, config) == [job_id |-> job_id, config |-> config]

\* models.TaskContainers: one container reference of a task.
TaskContainers(type, name) == [type |-> type, name |-> name]

\* models.Task; containers is task.config.containers, an Optional list: << >> is None.
Task(job_id, os, containers) == [job_id |-> job_id, os |-> os, containers |-> containers]

\* The most tasks the job under cleanup has.
MaxTasks == 2

\* The job under cleanup and another job of the service; "a" is a prefix of both ids.
TheJob == Pad(<< "a" >>)

OtherJob == Pad(<< "a", "a" >>)

TheConfig == JobConfig(Chars("a"), Chars("b:c"), << "1" >>)

\* The other job is a later build of the same project and name, or a job whose
\* project and name are split at another ':'.
OtherConfigs ==
  { JobConfig(Chars("a"), Chars("b:c"), build) : build \in Builds \ { << "1" >> } }
    \cup { JobConfig(Chars("a:b"), Chars("c"), << "1" >>) }

\* A container a user made and passed to the task by name.
SharedContainer == Chars("oft-shared")

\* How a reference got its name: "own" when the task was created from a template that
\* called build_container_name, "shared" when the user named an existing container.
ReferenceName(type, how, config, os) ==
  IF how = "own"
    THEN build_container_name(type, config.project, config.name, config.build, os)
    ELSE IF how = "other_os"
           THEN build_container_name(type, config.project, config.name, config.build,
                                     CHOOSE other \in OS : other # os)
           ELSE SharedContainer

\* The container lists of a task, each reference a pair << type, how >>.
ContainerShapes ==
  { << >>,
    << << >> >>,
    << << << "crashes", "own" >> >> >>,
    << << << "crashes", "shared" >> >> >>,
    << << << "tools", "shared" >>, << "crashes", "shared" >> >> >>,
    << << << "tools", "own" >>, << "setup", "own" >> >> >>,
    << << << "setup", "other_os" >> >> >> }

Containers(shape, config, os) ==
  IF shape = << >>
    THEN << >>
    ELSE << [i \in 1..Len(shape[1]) |->
               TaskContainers(shape[1][i][1],
                              ReferenceName(shape[1][i][1], shape[1][i][2], config, os))] >>

\* The lists whose names depend on the task's os.
PlatformShapes ==
  { shape \in ContainerShapes :
      shape # << >> /\ \E i \in 1..Len(shape[1]) : shape[1][i] \in { << "setup", "own" >>,
                                                                  << "setup", "other_os" >> } }

\* The tasks of a job: both platforms where the names depend on it.
TaskDomain(job_id, config) ==
  { Task(job_id, os, Containers(shape, config, os)) : os \in OS, shape \in PlatformShapes }
    \cup { Task(job_id, "linux", Containers(shape, config, "linux")) :
             shape \in ContainerShapes \ PlatformShapes }

\* The task of the other job: its own setup and crashes containers.
OtherTask(config) ==
  Task(OtherJob, "linux",
       Containers(<< << << "setup", "own" >>, << "crashes", "own" >> >> >>, config, "linux"))

\* The names the tasks refer to.
ReferencedBy(ts) ==
  UNION { IF ts[t].containers = << >>
            THEN { }
            ELSE { ts[t].containers[1][i].name : i \in 1..Len(ts[t].containers[1]) } :
          t \in 1..Len(ts) }

\* The identifiers a caller gives JobContainers.delete: a prefix of the job's id alone,
\* and a prefix of both ids.
CleanupTokens == { StrObj(<< "a", "0" >>), StrObj(<< "a" >>) }

\* The callers of JobContainers.delete.
Callers == { 1, 2 }

\* A call of JobContainers.delete that has not started.
NoRun ==
  [pc |-> "idle", job_id |-> None, only_job_specific |-> TRUE, dryrun |-> FALSE,
   res |-> Returned(None, 0), containers |-> { }, to_delete |-> { }, to_keep |-> { },
   pending |-> { }, log |-> << >>]

(***************************************************************************)
(* The resolving operations                                                *)
(***************************************************************************)

NoOp == [name |-> "", arg |-> None]

NoRes == Returned(None, 0)

NoNaming ==
  [container_type |-> "", project |-> << >>, name |-> << >>, build |-> << >>,
   platform |-> "", container |-> << >>]

Request(method, where, data, arg) ==
  [method |-> method, endpoint |-> where, data |-> data, arg |-> arg]

\* self.list() of Pool and of Jobs: one search request without a name or an id.
PoolListRequest == Request("GET", "pool", "PoolSearch", None)

JobsListRequest == Request("GET", "jobs", "JobSearch", None)

\* [x.name for x in self.list()]
PoolNameList == pools

\* [str(x.job_id) for x in self.list()]
JobIdList == [i \in 1..Len(jobs) |-> UuidStr(jobs[i])]

Repeat(x, n) == [i \in 1..n |-> x]

\* The client before its first operation.
ClientInit ==
  /\ pc = "idle"
  /\ op = NoOp
  /\ res = NoRes
  /\ sent = << >>
  /\ endpoint = << >>
  /\ naming = NoNaming
  /\ deployed = NoNaming
  /\ runs = [c \in Callers |-> NoRun]

\* The two collections are populated one at a time: no operation reads both.
Init ==
  /\ pools \in ListsUpTo(PoolNames, MaxCands)
  /\ jobs \in ListsUpTo(JobIds, MaxCands)
  /\ pools = << >> \/ jobs = << >>
  /\ configs = [i \in 1..Len(jobs) |-> TheConfig]
  /\ tasks = << >>
  /\ store = { }
  /\ ClientInit

\* Pool.get(name)
PoolGet(name) ==
  /\ pc = "idle"
  /\ LET r == disambiguate("pool name", name, "lambda x: False", PoolNameList)
     IN  /\ res' = r
         /\ sent' = Repeat(PoolListRequest, r.calls)
                      \o IF r.raised = "none"
                           THEN << Request("GET", "pool", "PoolSearch", r.value) >>
                           ELSE << >>
  /\ op' = [name |-> "Pool.get", arg |-> StrObj(name)]
  /\ pc' = "done"
  /\ UNCHANGED << pools, jobs, namerVars, cleanupVars >>

\* Pool.shutdown(name)
PoolShutdown(name) ==
  /\ pc = "idle"
  /\ LET r == disambiguate("name", name, "lambda x: False", PoolNameList)
     IN  /\ res' = r
         /\ sent' = Repeat(PoolListRequest, r.calls)
                      \o IF r.raised = "none"
                           THEN << Request("DELETE", "pool", "PoolStop", r.value) >>
                           ELSE << >>
  /\ op' = [name |-> "Pool.shutdown", arg |-> StrObj(name)]
  /\ pc' = "done"
  /\ UNCHANGED << pools, jobs, namerVars, cleanupVars >>

\* Jobs.get(job_id)
JobsGet(job_id) ==
  /\ pc = "idle"
  /\ LET r == disambiguate_uuid("job_id", job_id, JobIdList)
     IN  /\ res' = r
         /\ sent' = Repeat(JobsListRequest, r.calls)
                      \o IF r.raised = "none"
                           THEN << Request("GET", "jobs", "JobGet", r.value) >>
                           ELSE << >>
  /\ op' = [name |-> "Jobs.get", arg |-> job_id]
  /\ pc' = "done"
  /\ UNCHANGED << pools, jobs, namerVars, cleanupVars >>

\* Notifications.get(notification_id): the search is sent with the id as given.
NotificationsGet(notification_id) ==
  /\ pc = "idle"
  /\ res' = NoRes
  /\ sent' = << Request("GET", "notifications", "NotificationSearch", notification_id) >>
  /\ op' = [name |-> "Notifications.get", arg |-> notification_id]
  /\ pc' = "done"
  /\ UNCHANGED << pools, jobs, namerVars, cleanupVars >>

\* The operation has returned or raised to its caller; the client is ready again.
Finish ==
  /\ pc = "done"
  /\ pc' = "idle"
  /\ op' = NoOp
  /\ res' = NoRes
  /\ sent' = << >>
  /\ UNCHANGED << pools, jobs, namerVars, cleanupVars >>

Next ==
  \/ \E name \in NameTokens : PoolGet(name)
  \/ \E name \in NameTokens : PoolShutdown(name)
  \/ \E job_id \in UuidTokens : JobsGet(job_id)
  \/ \E notification_id \in UuidTokens : NotificationsGet(notification_id)
  \/ Finish

Spec == Init /\ [][Next]_vars

(***************************************************************************)
(* The naming operations                                                   *)
(***************************************************************************)

InitNamer ==
  /\ pools = << >>
  /\ jobs = << >>
  /\ configs = << >>
  /\ tasks = << >>
  /\ store = { }
  /\ ClientInit

\* Utils.build_container_name(container_type, project, name, build, platform)
BuildContainerName(container_type, project, name, build, platform) ==
  /\ pc = "idle"
  /\ naming' = [container_type |-> container_type, project |-> project, name |-> name,
                build |-> build, platform |-> platform,
                container |-> build_container_name(container_type, project, name,
                                                   build, platform)]
  /\ pc' = "done"
  /\ UNCHANGED << resolverVars, endpoint, deployed, cleanupVars >>

\* The call has returned, and its caller creates a container under the name.
NamingDeployed ==
  /\ pc = "done"
  /\ pc' = "idle"
  /\ deployed' = naming
  /\ naming' = NoNaming
  /\ UNCHANGED << resolverVars, endpoint, cleanupVars >>

\* The call has returned, and its caller only reads the name.
NamingRead ==
  /\ pc = "done"
  /\ pc' = "idle"
  /\ naming' = NoNaming
  /\ UNCHANGED << resolverVars, endpoint, deployed, cleanupVars >>

\* Onefuzz.config(endpoint): the client is pointed at an instance.
Config(e) ==
  /\ pc = "idle"
  /\ endpoint' = e
  /\ UNCHANGED << resolverVars, pc, naming, deployed, cleanupVars >>

NextNamer ==
  \/ \E container_type \in ContainerType, project \in Projects, name \in JobNames,
        build \in Builds, platform \in OS :
        BuildContainerName(container_type, project, name, build, platform)
  \/ NamingDeployed
  \/ NamingRead
  \/ \E e \in Endpoints : Config(e)

SpecNamer == InitNamer /\ [][NextNamer]_vars

(***************************************************************************)
(* The job container cleanup                                               *)
(***************************************************************************)

\* The answer of the service to JobGet: the job with the id.
JobOf(job_id) ==
  LET i == CHOOSE k \in 1..Len(jobs) : jobs[k] = job_id
  IN  Job(jobs[i], configs[i])

HasJob(job_id) == \E k \in 1..Len(jobs) : jobs[k] = job_id

\* self.onefuzz.jobs.tasks.list(job_id=job.job_id): the id is a UUID, which
\* Tasks.list resolves without a search, and the service answers TaskSearch with
\* the tasks of the job.
JobTasksList(job_id) ==
  LET r == disambiguate_uuid("job_id", job_id, JobIdList)
  IN  SelectSeq(tasks, LAMBDA task : task.job_id = r.value)

\* Variant: the container type is not compared with SAFE_TO_REMOVE.
ClassifyContainer_any_type(sets, job, task, container, only_job_specific) ==
  LET seen == [sets EXCEPT !.containers = @ \cup { container.name }]
  IN  IF ~only_job_specific
        THEN [seen EXCEPT !.to_delete = @ \cup { container.name }]
        ELSE IF build_container_name(container.type, job.config.project,
                                     job.config.name, job.config.build,
                                     task.os) = container.name
               THEN [seen EXCEPT !.to_delete = @ \cup { container.name }]
               ELSE seen

\* Variant: a name that a task of another job refers to is never the job's own.
ClassifyContainer_unshared(sets, job, task, container, only_job_specific) ==
  LET seen == [sets EXCEPT !.containers = @ \cup { container.name }]
      shared == \E t \in 1..Len(tasks) :
                  /\ tasks[t].job_id # job.job_id
                  /\ tasks[t].containers # << >>
                  /\ \E i \in 1..Len(tasks[t].containers[1]) :
                       tasks[t].containers[1][i].name = container.name
  IN  IF container.type \notin SAFE_TO_REMOVE
        THEN seen
        ELSE IF ~only_job_specific
               THEN [seen EXCEPT !.to_delete = @ \cup { container.name }]
               ELSE IF ~shared /\ build_container_name(container.type, job.config.project,
                                                       job.config.name, job.config.build,
                                                       task.os) = container.name
                      THEN [seen EXCEPT !.to_delete = @ \cup { container.name }]
                      ELSE seen

\* Variant: the name is compared whatever only_job_specific says.
ClassifyContainer_always_compared(sets, job, task, container, only_job_specific) ==
  LET seen == [sets EXCEPT !.containers = @ \cup { container.name }]
  IN  IF container.type \notin SAFE_TO_REMOVE
        THEN seen
        ELSE IF build_container_name(container.type, job.config.project,
                                     job.config.name, job.config.build,
                                     task.os) = container.name
               THEN [seen EXCEPT !.to_delete = @ \cup { container.name }]
               ELSE seen

\* Variant: the canonical name is computed for linux, not for the task's os.
ClassifyContainer_default_os(sets, job, task, container, only_job_specific) ==
  LET seen == [sets EXCEPT !.containers = @ \cup { container.name }]
  IN  IF container.type \notin SAFE_TO_REMOVE
        THEN seen
        ELSE IF ~only_job_specific
               THEN [seen EXCEPT !.to_delete = @ \cup { container.name }]
               ELSE IF build_container_name(container.type, job.config.project,
                                            job.config.name, job.config.build,
                                            "linux") = container.name
                      THEN [seen EXCEPT !.to_delete = @ \cup { container.name }]
                      ELSE seen

\* The body of the inner loop, for one container of one task of the job.
\* sets.containers and sets.to_delete are the two sets the loops fill.
ClassifyContainer(sets, job, task, container, only_job_specific) ==
  LET seen == [sets EXCEPT !.containers = @ \cup { container.name }]
  IN  IF container.type \notin SAFE_TO_REMOVE
        THEN seen
        ELSE IF ~only_job_specific
               THEN [seen EXCEPT !.to_delete = @ \cup { container.name }]
               ELSE IF only_job_specific
                         /\ build_container_name(container.type, job.config.project,
                                                 job.config.name, job.config.build,
                                                 task.os) = container.name
                      THEN [seen EXCEPT !.to_delete = @ \cup { container.name }]
                      ELSE seen

\* for container in task.config.containers
RECURSIVE ClassifyContainers(_, _, _, _, _)
ClassifyContainers(sets, job, task, containers, only_job_specific) ==
  IF containers = << >>
    THEN sets
    ELSE ClassifyContainers(
           ClassifyContainer(sets, job, task, Head(containers), only_job_specific),
           job, task, Tail(containers), only_job_specific)

\* for task in self.onefuzz.jobs.tasks.list(job_id=job.job_id)
RECURSIVE ClassifyTasks(_, _, _, _)
ClassifyTasks(sets, job, job_tasks, only_job_specific) ==
  IF job_tasks = << >>
    THEN sets
    ELSE ClassifyTasks(
           IF Head(job_tasks).containers # << >>
             THEN ClassifyContainers(sets, job, Head(job_tasks),
                                     Head(job_tasks).containers[1], only_job_specific)
             ELSE sets,
           job, Tail(job_tasks), only_job_specific)

\* The state of a call after job = self.onefuzz.jobs.get(job_id), the two loops and
\* to_keep = containers - to_delete.
\* The call with its arguments and the resolution r of the id.
Started(job_id, only_job_specific, dryrun, r) ==
  [NoRun EXCEPT !.job_id = job_id, !.only_job_specific = only_job_specific,
                !.dryrun = dryrun, !.res = r]

\* Variant: a call with nothing to delete ends with an error.
Planned_raises_when_empty(started, sets) ==
  [started EXCEPT !.containers = sets.containers,
                  !.to_delete = sets.to_delete,
                  !.to_keep = sets.containers \ sets.to_delete,
                  !.pending = sets.to_delete,
                  !.pc = IF Cardinality(sets.to_delete) > 0 THEN "deleting" ELSE "raised",
                  !.log = << >>]

\* Variant: to_keep is every referenced name.
Planned_keeps_all(started, sets) ==
  [started EXCEPT !.containers = sets.containers,
                  !.to_delete = sets.to_delete,
                  !.to_keep = sets.containers,
                  !.pending = sets.to_delete,
                  !.pc = IF Cardinality(sets.to_delete) > 0 THEN "deleting" ELSE "returned",
                  !.log = IF Cardinality(sets.to_delete) > 0
                            THEN << >>
                            ELSE << [what |-> "nothing to delete", name |-> << >>] >>]

\* Variant: the loop goes over containers, not over to_delete.
Planned_loops_over_all(started, sets) ==
  [started EXCEPT !.containers = sets.containers,
                  !.to_delete = sets.to_delete,
                  !.to_keep = sets.containers \ sets.to_delete,
                  !.pending = sets.containers,
                  !.pc = IF Cardinality(sets.containers) > 0 THEN "deleting" ELSE "returned",
                  !.log = IF Cardinality(sets.containers) > 0
                            THEN << >>
                            ELSE << [what |-> "nothing to delete", name |-> << >>] >>]

\* to_keep = containers - to_delete, then the loop over to_delete if it has an
\* element, and "nothing to delete" otherwise.
Planned(started, sets) ==
  [started EXCEPT !.containers = sets.containers,
                  !.to_delete = sets.to_delete,
                  !.to_keep = sets.containers \ sets.to_delete,
                  !.pending = sets.to_delete,
                  !.pc = IF Cardinality(sets.to_delete) > 0 THEN "deleting" ELSE "returned",
                  !.log = IF Cardinality(sets.to_delete) > 0
                            THEN << >>
                            ELSE << [what |-> "nothing to delete", name |-> << >>] >>]

\* The state of a call after job = self.onefuzz.jobs.get(job_id), the two loops and
\* to_keep = containers - to_delete: r is the resolution of the id, job the answer
\* to JobGet, sets the two sets.
Classified(job_id, only_job_specific, dryrun) ==
  CHOOSE run \in
    { IF r.raised # "none" \/ ~HasJob(r.value)
        THEN [Started(job_id, only_job_specific, dryrun, r) EXCEPT !.pc = "raised"]
        ELSE CHOOSE done \in
               { Planned(Started(job_id, only_job_specific, dryrun, r), sets) :
                   sets \in { ClassifyTasks([containers |-> { }, to_delete |-> { }],
                                            job, JobTasksList(job.job_id),
                                            only_job_specific) :
                              job \in { JobOf(r.value) } } } : TRUE :
        r \in { disambiguate_uuid("job_id", job_id, JobIdList) } } : TRUE

\* The service's answer to ContainerDelete: whether the container existed.
ContainerDeleteResult(name) == name \in store

InitCleanup ==
  /\ pools = << >>
  /\ jobs = << TheJob, OtherJob >>
  /\ configs \in { << TheConfig, config >> : config \in OtherConfigs }
  /\ tasks \in { job_tasks \o << OtherTask(configs[2]) >> :
                   job_tasks \in ListsUpTo(TaskDomain(TheJob, TheConfig), MaxTasks) }
  /\ store = ReferencedBy(tasks)
  /\ ClientInit

\* JobContainers.delete(job_id, only_job_specific, dryrun) by caller c, up to the
\* loop over to_delete.
JobContainersDelete(c, job_id, only_job_specific, dryrun) ==
  /\ runs[c].pc = "idle"
  /\ runs' = [runs EXCEPT ![c] = Classified(job_id, only_job_specific, dryrun)]
  /\ UNCHANGED << resolverVars, pc, namerVars, configs, tasks, store >>

\* The store after the service has deleted a container.
StoreAfterDelete(name) == store \ { name }

\* Variant: the loop calls the remote delete whatever dryrun says.
DeleteLoop_ignores_dryrun(c) ==
  /\ runs[c].pc = "deleting"
  /\ \E container_name \in runs[c].pending :
       LET result == ContainerDeleteResult(container_name)
           what == IF result THEN "removed container"
                   ELSE "container already removed"
       IN  /\ store' = StoreAfterDelete(container_name)
           /\ runs' = [runs EXCEPT
                         ![c].pending = @ \ { container_name },
                         ![c].log = Append(@, [what |-> what, name |-> container_name]),
                         ![c].pc = IF runs[c].pending = { container_name }
                                     THEN "returned" ELSE "deleting"]
  /\ UNCHANGED << resolverVars, pc, namerVars, configs, tasks >>

\* Variant: a container that no longer exists ends the call with an error.
DeleteLoop_raises_if_absent(c) ==
  /\ runs[c].pc = "deleting"
  /\ \E container_name \in runs[c].pending :
       LET result == ContainerDeleteResult(container_name)
           what == IF runs[c].dryrun THEN "container would be deleted"
                   ELSE IF result THEN "removed container"
                   ELSE "container already removed"
       IN  /\ store' = IF runs[c].dryrun THEN store ELSE StoreAfterDelete(container_name)
           /\ runs' = [runs EXCEPT
                         ![c].pending = @ \ { container_name },
                         ![c].log = Append(@, [what |-> what, name |-> container_name]),
                         ![c].pc = IF ~runs[c].dryrun /\ ~result
                                     THEN "raised"
                                     ELSE IF runs[c].pending = { container_name }
                                            THEN "returned" ELSE "deleting"]
  /\ UNCHANGED << resolverVars, pc, namerVars, configs, tasks >>

\* Variant: the answer of the remote delete is not looked at.
DeleteLoop_reports_removed(c) ==
  /\ runs[c].pc = "deleting"
  /\ \E container_name \in runs[c].pending :
       LET what == IF runs[c].dryrun THEN "container would be deleted"
                   ELSE "removed container"
       IN  /\ store' = IF runs[c].dryrun THEN store ELSE StoreAfterDelete(container_name)
           /\ runs' = [runs EXCEPT
                         ![c].pending = @ \ { container_name },
                         ![c].log = Append(@, [what |-> what, name |-> container_name]),
                         ![c].pc = IF runs[c].pending = { container_name }
                                     THEN "returned" ELSE "deleting"]
  /\ UNCHANGED << resolverVars, pc, namerVars, configs, tasks >>

\* One round of the loop over to_delete, for a name in the order the set yields.
DeleteLoop(c) ==
  /\ runs[c].pc = "deleting"
  /\ \E container_name \in runs[c].pending :
       LET result == ContainerDeleteResult(container_name)
           what == IF runs[c].dryrun THEN "container would be deleted"
                   ELSE IF result THEN "removed container"
                   ELSE "container already removed"
       IN  /\ store' = IF runs[c].dryrun THEN store ELSE StoreAfterDelete(container_name)
           /\ runs' = [runs EXCEPT
                         ![c].pending = @ \ { container_name },
                         ![c].log = Append(@, [what |-> what, name |-> container_name]),
                         ![c].pc = IF runs[c].pending = { container_name }
                                     THEN "returned" ELSE "deleting"]
  /\ UNCHANGED << resolverVars, pc, namerVars, configs, tasks >>

\* The store after a remote delete that failed: the request may or may not have
\* reached the service.
StoreAfterFailedDelete(name) == { store, StoreAfterDelete(name) }

\* Variant: the loop catches the exception and goes on with the next name.
DeleteRaises_goes_on(c) ==
  /\ runs[c].pc = "deleting"
  /\ ~runs[c].dryrun
  /\ \E container_name \in runs[c].pending :
       /\ store' \in StoreAfterFailedDelete(container_name)
       /\ runs' = [runs EXCEPT
                     ![c].pending = @ \ { container_name },
                     ![c].log = Append(@, [what |-> "exception", name |-> container_name]),
                     ![c].pc = IF runs[c].pending = { container_name }
                                 THEN "returned" ELSE "deleting"]
  /\ UNCHANGED << resolverVars, pc, namerVars, configs, tasks >>

\* A round of the loop in which self.onefuzz.containers.delete raises: nothing
\* catches the exception, the loop and the call end.
DeleteRaises(c) ==
  /\ runs[c].pc = "deleting"
  /\ ~runs[c].dryrun
  /\ \E container_name \in runs[c].pending :
       /\ store' \in StoreAfterFailedDelete(container_name)
       /\ runs' = [runs EXCEPT
                     ![c].log = Append(@, [what |-> "exception", name |-> container_name]),
                     ![c].pc = "raised"]
  /\ UNCHANGED << resolverVars, pc, namerVars, configs, tasks >>

\* A caller cleans up a job.
FirstRun(job_id, only_job_specific, dryrun) ==
  /\ runs[2].pc = "idle"
  /\ JobContainersDelete(1, job_id, only_job_specific, dryrun)

\* After the call has returned, the job is cleaned up again.
SecondRun(dryrun) ==
  /\ runs[1].pc = "returned"
  /\ JobContainersDelete(2, runs[1].job_id, runs[1].only_job_specific, dryrun)

NextCleanup ==
  \/ \E job_id \in CleanupTokens, only_job_specific \in BOOLEAN, dryrun \in BOOLEAN :
       FirstRun(job_id, only_job_specific, dryrun)
  \/ \E dryrun \in BOOLEAN : SecondRun(dryrun)
  \/ \E c \in Callers : DeleteLoop(c)

SpecCleanup == InitCleanup /\ [][NextCleanup]_vars

\* Two callers clean up at the same time, with dryrun false: either may start and
\* either may do the next round of its loop.
ConcurrentRun(c, job_id, only_job_specific) ==
  JobContainersDelete(c, job_id, only_job_specific, FALSE)

NextConcurrent ==
  \/ \E c \in Callers, job_id \in CleanupTokens, only_job_specific \in BOOLEAN :
       ConcurrentRun(c, job_id, only_job_specific)
  \/ \E c \in Callers : DeleteLoop(c)

SpecConcurrent == InitCleanup /\ [][NextConcurrent]_vars

\* A task with three containers of its own under allowlisted roles.
ThreeOwnContainers ==
  Task(TheJob, "linux",
       Containers(<< << << "setup", "own" >>, << "crashes", "own" >>,
                        << "inputs", "own" >> >> >>, TheConfig, "linux"))

InitFailing ==
  /\ pools = << >>
  /\ jobs = << TheJob, OtherJob >>
  /\ configs \in { << TheConfig, config >> : config \in OtherConfigs }
  /\ tasks \in { job_tasks \o << OtherTask(configs[2]) >> :
                   job_tasks \in ListsUpTo(TaskDomain(TheJob, TheConfig)
                                             \cup { ThreeOwnContainers }, MaxTasks) }
  /\ store = ReferencedBy(tasks)
  /\ ClientInit

\* One cleanup against a service whose delete may fail in transport.
NextFailing ==
  \/ \E job_id \in CleanupTokens, only_job_specific \in BOOLEAN, dryrun \in BOOLEAN :
       FirstRun(job_id, only_job_specific, dryrun)
  \/ DeleteLoop(1)
  \/ DeleteRaises(1)

SpecFailing == InitFailing /\ [][NextFailing]_vars

(***************************************************************************)
(* Properties of the resolver                                              *)
(***************************************************************************)

\* An operation of the resolving client has just resolved its argument.
Resolved == pc = "done" /\ op # NoOp /\ res # NoRes

\* The token the caller supplied, as text.
Token == op.arg.v

\* The field name the operation passes to the resolver.
FieldName ==
  CASE op.name = "Pool.get" -> "pool name"
    [] op.name = "Pool.shutdown" -> "name"
    [] OTHER -> "job_id"

\* The list the operation's enumerator returns.
Candidates == IF op.name = "Jobs.get" THEN JobIdList ELSE PoolNameList

\* The request the operation's enumerator sends.
ListRequest == IF op.name = "Jobs.get" THEN JobsListRequest ELSE PoolListRequest

\* p is an initial segment of x, character for character.
IsPrefixOf(p, x) == Len(p) <= Len(x) /\ SubSeq(x, 1, Len(p)) = p

\* The positions of the candidates that start with the token.
Matching == { i \in 1..Len(Candidates) : IsPrefixOf(Token, Candidates[i]) }

\* The candidates that start with the token, in the enumerator's order.
MatchingList == SelectSeq(Candidates, LAMBDA x : IsPrefixOf(Token, x))

TokenIsCandidate == \E i \in 1..Len(Candidates) : Candidates[i] = Token

\* The token is a UUID object, or a string the operation's check accepts.
FastPath ==
  \/ op.arg.type = "UUID"
  \/ op.name = "Jobs.get" /\ is_uuid(Token)

\* The identifier the resolver returned, as text.
ReturnedText == IF res.value.type = "UUID" THEN UuidStr(res.value) ELSE res.value.v

\* How many of the requests sent are calls of the enumerator.
Enumerations == Cardinality({ i \in 1..Len(sent) : sent[i] = ListRequest })

\* Nothing but the enumerator's requests went out: no identifier was used.
NoIdentifierUsed == \A i \in 1..Len(sent) : sent[i] = ListRequest

\* C1: off the fast path, a non-empty token that exactly one candidate starts
\* with resolves to that candidate.
C1_UniqueMatchReturned ==
  (Resolved /\ ~FastPath /\ Token # << >> /\ Cardinality(Matching) = 1)
    => /\ res.raised = "none"
       /\ \A i \in Matching : ReturnedText = Candidates[i]

\* A proper prefix of one of two candidates was resolved to that candidate.
C1_Witness ==
  /\ Resolved /\ ~FastPath /\ Token # << >>
  /\ Cardinality(Matching) = 1
  /\ Len(Candidates) = 2
  /\ ~TokenIsCandidate
  /\ res.raised = "none"
  /\ \E i \in Matching : ReturnedText = Candidates[i]

\* C2: a token that is itself a candidate, when more than one candidate starts
\* with it, resolves to the token.
C2_ExactMatchWins ==
  (Resolved /\ TokenIsCandidate /\ Cardinality(Matching) > 1)
    => /\ res.raised = "none"
       /\ ReturnedText = Token

\* The token is a candidate and a proper prefix of another one.
C2_Witness ==
  /\ Resolved /\ TokenIsCandidate
  /\ \E i \in Matching : Candidates[i] # Token
  /\ res.raised = "none"
  /\ ReturnedText = Token

\* C3: a token no candidate starts with raises the not-found error, which
\* carries the field name and the token, and no identifier is returned.
C3_NotFound ==
  (Resolved /\ ~FastPath /\ Matching = { })
    => /\ res.raised = "Unable to find based on prefix"
       /\ res.name = FieldName
       /\ res.token = Token
       /\ res.value = None
       /\ NoIdentifierUsed

\* A non-empty list of candidates, none of which starts with the token.
C3_Witness ==
  /\ Resolved /\ ~FastPath
  /\ Matching = { }
  /\ Candidates # << >>
  /\ res.raised = "Unable to find based on prefix"
  /\ res.token = Token

C5_UuidFastPath ==
  (Resolved /\ op.name = "Jobs.get" /\ FastPath)
    => /\ res.raised = "none"
       /\ res.value.type = "UUID"
       /\ res.value.v = (IF op.arg.type = "UUID" THEN Token
                         ELSE SelectSeq(Token, LAMBDA c : c # "-"))
       /\ res.calls = 0
       /\ Enumerations = 0

\* A string is_uuid accepts, naming no job of a non-empty list, was resolved.
C5_Witness ==
  /\ Resolved /\ op.name = "Jobs.get"
  /\ op.arg.type = "str" /\ is_uuid(Token)
  /\ jobs # << >>
  /\ Matching = { }
  /\ res.value.type = "UUID"
  /\ res.calls = 0

\* The token is a complete identifier: a full UUID, or the full exact name of
\* an existing pool.
CompleteUuid == op.name = "Jobs.get" /\ FastPath

CompletePoolName == op.name \in { "Pool.get", "Pool.shutdown" } /\ TokenIsCandidate

\* The operation used the identifier the caller supplied.
SuppliedIdentifierUsed ==
  /\ res.raised = "none"
  /\ IF op.arg.type = "UUID" THEN res.value = op.arg
     ELSE IF op.name = "Jobs.get" THEN res.value = UUID(Token)
     ELSE res.value = StrObj(Token)

\* C6 as stated: a complete identifier is returned without any enumeration.
C6_CompleteWithoutEnumeration ==
  (Resolved /\ (CompleteUuid \/ CompletePoolName))
    => SuppliedIdentifierUsed /\ Enumerations = 0

\* C6: a full UUID is returned without any enumeration; the full exact name of
\* an existing pool is returned unchanged after exactly one enumeration.
C6_CompleteIdentifier ==
  /\ (Resolved /\ CompleteUuid) => SuppliedIdentifierUsed /\ Enumerations = 0
  /\ (Resolved /\ CompletePoolName)
       => /\ SuppliedIdentifierUsed
          /\ Enumerations = 1
          /\ sent[1] = ListRequest

\* The full name of an existing pool was resolved, with one enumeration.
C6_Witness ==
  /\ Resolved /\ CompletePoolName
  /\ SuppliedIdentifierUsed
  /\ Enumerations = 1

(***************************************************************************)
(* Properties of the namer                                                 *)
(***************************************************************************)

\* A call of build_container_name has returned while a container made by an
\* earlier call is deployed.
NamedAgain == pc = "done" /\ naming # NoNaming /\ deployed # NoNaming

SameJob ==
  /\ naming.container_type = deployed.container_type
  /\ naming.project = deployed.project
  /\ naming.name = deployed.name

SameArguments ==
  /\ SameJob
  /\ naming.build = deployed.build
  /\ naming.platform = deployed.platform

DigestParts(n) ==
  IF n.container_type \in { "setup", "coverage" }
    THEN << n.project, n.name, n.build, Chars(n.platform) >>
    ELSE IF n.container_type = "regression_reports"
           THEN << n.project, n.name, n.build >>
           ELSE << n.project, n.name >>

\* The parts joined with ':'.
RECURSIVE ColonJoined(_)
ColonJoined(parts) ==
  IF Len(parts) = 1 THEN parts[1]
  ELSE parts[1] \o << ":" >> \o ColonJoined(Tail(parts))

\* uuid.uuid5 of the reference implementation, under the namespace
\* 27f25e3f-6544-4b69-b309-9b096c5a9cbc, as 32 hexadecimal digits.
Uuid5Reference ==
{
  << Chars("a:c"), Chars("0319fa17ce0c5de4905a66a78e791333") >>,
  << Chars("a:c:1"), Chars("e4ae31a4d38c54d1b91f00f2558ebeaf") >>,
  << Chars("a:c:1:windows"), Chars("ac99f44f15e55fe69ab4271b91ab43d9") >>,
  << Chars("a:c:1:linux"), Chars("7fa8a99b4b66513d9c609a90471d73b2") >>,
  << Chars("a:c:2"), Chars("26a61fbc660b5431b1656692ef64450c") >>,
  << Chars("a:c:2:windows"), Chars("dfa972fa7d3753b8a37304b42726ae91") >>,
  << Chars("a:c:2:linux"), Chars("7bc5bece2359592ca3a5021895d16a12") >>,
  << Chars("a:c:3"), Chars("bf22b9f41b755d36a2ec94f32d5c4fad") >>,
  << Chars("a:c:3:windows"), Chars("45546f95354a5891935b38358c509a08") >>,
  << Chars("a:c:3:linux"), Chars("08a121449fd5560dac7be14425985f1b") >>,
  << Chars("a:b:c"), Chars("3b013b7cf4d854039d201e1659500f82") >>,
  << Chars("a:b:c:1"), Chars("48e579e1f8005341b08153ddb9162888") >>,
  << Chars("a:b:c:1:windows"), Chars("7d50ff43ba265cc08cc2128b49df058b") >>,
  << Chars("a:b:c:1:linux"), Chars("190c64f102b851b78e3bd2788278480e") >>,
  << Chars("a:b:c:2"), Chars("877f5da2c1515eceb7349b179cc81fbc") >>,
  << Chars("a:b:c:2:windows"), Chars("5251af6c721054028edf192777af321c") >>,
  << Chars("a:b:c:2:linux"), Chars("a556cff853d65bbcb8814c07a435b11c") >>,
  << Chars("a:b:c:3"), Chars("fcab3d9ce0c4585dbc0c9999b1659e57") >>,
  << Chars("a:b:c:3:windows"), Chars("60ffbda4df0f5544acff50c52a03e39c") >>,
  << Chars("a:b:c:3:linux"), Chars("9f46b9bc52e05e988005b8811ee65436") >>,
  << Chars("a:b:b:c"), Chars("bfad21ffec105d67a2ed9998cbe584f6") >>,
  << Chars("a:b:b:c:1"), Chars("543c9a8e425d5f0c909ecdc89b2d7a94") >>,
  << Chars("a:b:b:c:1:windows"), Chars("18324fa0a3e15345b1fd3a707e233689") >>,
  << Chars("a:b:b:c:1:linux"), Chars("ced48cca1d485b7cb31cb35e24818079") >>,
  << Chars("a:b:b:c:2"), Chars("8a51b20241c25acd86e7bfe649ce48fb") >>,
  << Chars("a:b:b:c:2:windows"), Chars("a1b95d2ff97355fc898d1c8af4e78553") >>,
  << Chars("a:b:b:c:2:linux"), Chars("c814696f7e555f18ae104808a3d88972") >>,
  << Chars("a:b:b:c:3"), Chars("f1af0ac734c05115833d944a506091b1") >>,
  << Chars("a:b:b:c:3:windows"), Chars("12c3b1d8ddcd5b95a960d1c9af49a962") >>,
  << Chars("a:b:b:c:3:linux"), Chars("252fefbb2a8c5e44bd76494bbeca8f41") >> }

\* The last 32 characters of a container name.
GuidHex(container) == SubSeq(container, Len(container) - 31, Len(container))

\* C8: the identifier is the UUID version 5 (SHA-1) of the parts joined with
\* ':' under the namespace 27f25e3f-6544-4b69-b309-9b096c5a9cbc, with the
\* version and the variant bits set.
C8_NamespacedGuidIsUuid5 ==
  (pc = "done" /\ naming # NoNaming)
    => /\ \A ref \in Uuid5Reference :
            ref[1] = ColonJoined(DigestParts(naming))
              => GuidHex(naming.container) = ref[2]
       /\ \E ref \in Uuid5Reference : ref[1] = ColonJoined(DigestParts(naming))
       /\ GuidHex(naming.container)[13] = "5"
       /\ GuidHex(naming.container)[17] \in { "8", "9", "a", "b" }

\* A setup container was named from all four parts.
C8_Witness ==
  /\ pc = "done"
  /\ naming.container_type = "setup"
  /\ ColonJoined(DigestParts(naming)) = Chars("a:b:c:1:linux")
  /\ GuidHex(naming.container)[13] = "5"

\* C9: for a container type other than setup, coverage and regression_reports
\* the name does not depend on the build or the platform; for
\* regression_reports it does not depend on the platform.
C9_InsensitiveRoles ==
  (NamedAgain /\ SameJob)
    => /\ naming.container_type \notin { "setup", "coverage", "regression_reports" }
            => naming.container = deployed.container
       /\ (naming.container_type = "regression_reports"
             /\ naming.build = deployed.build)
            => naming.container = deployed.container

\* A regression_reports container was named again for another platform.
C9_Witness ==
  /\ NamedAgain /\ SameJob
  /\ naming.container_type = "regression_reports"
  /\ naming.build = deployed.build
  /\ naming.platform # deployed.platform
  /\ naming.container = deployed.container

\* C10: for setup and coverage, changing only the platform changes the name;
\* for setup, coverage and regression_reports, changing only the build changes
\* the name.
C10_SensitiveRoles ==
  (NamedAgain /\ SameJob)
    => /\ (naming.container_type \in { "setup", "coverage" }
             /\ naming.build = deployed.build
             /\ naming.platform # deployed.platform)
            => naming.container # deployed.container
       /\ (naming.container_type \in { "setup", "coverage", "regression_reports" }
             /\ naming.build # deployed.build
             /\ naming.platform = deployed.platform)
            => naming.container # deployed.container

\* A coverage container was named again for another platform only.
C10_Witness ==
  /\ NamedAgain /\ SameJob
  /\ naming.container_type = "coverage"
  /\ naming.build = deployed.build
  /\ naming.platform # deployed.platform
  /\ naming.container # deployed.container

(***************************************************************************)
(* Properties of the job container cleanup                                 *)
(***************************************************************************)

\* Caller c's call has got its job and filled its sets.
Ran(c) == runs[c].pc \in { "deleting", "returned" }

\* The references of the tasks of a job: name, type and the task's os.
References(job_id) ==
  UNION { IF tasks[t].containers = << >>
            THEN { }
            ELSE { [name |-> tasks[t].containers[1][i].name,
                    type |-> tasks[t].containers[1][i].type,
                    os |-> tasks[t].os] : i \in 1..Len(tasks[t].containers[1]) } :
          t \in { u \in 1..Len(tasks) : tasks[u].job_id = job_id } }

\* The references of the job caller c cleans up.
RunReferences(c) == References(runs[c].res.value)

ReferencedNames(c) == { ref.name : ref \in RunReferences(c) }

\* The names referenced under some role of the allowlist, and under none.
AllowlistedNames(c) ==
  { ref.name : ref \in { x \in RunReferences(c) : x.type \in SAFE_TO_REMOVE } }

OnlyOtherRoles(c) == ReferencedNames(c) \ AllowlistedNames(c)

\* The names caller c has passed to the remote delete, in order.
RemoteDeletes(c) ==
  LET calls == SelectSeq(runs[c].log,
                         LAMBDA e : e.what \in { "removed container",
                                                 "container already removed" })
  IN  [i \in 1..Len(calls) |-> calls[i].name]

RemotelyDeleted(c) == { RemoteDeletes(c)[i] : i \in 1..Len(RemoteDeletes(c)) }

\* The canonical name of the job of caller c for a type and an os.
CanonicalName(c, type, os) ==
  LET config == JobOf(runs[c].res.value).config
  IN  build_container_name(type, config.project, config.name, config.build, os)

\* C11: a name the job's tasks reference only under roles outside SAFE_TO_REMOVE
\* is never in the delete set and never passed to the remote delete, for both
\* values of only_job_specific, also when it equals the recomputed canonical name.
C11_OtherRolesNeverDeleted ==
  \A c \in Callers :
    Ran(c) => \A name \in OnlyOtherRoles(c) :
                /\ name \notin runs[c].to_delete
                /\ name \notin RemotelyDeleted(c)

\* A tools container bearing its canonical name was kept while others went.
C11_Witness ==
  /\ runs[1].pc = "returned"
  /\ ~runs[1].dryrun
  /\ runs[1].only_job_specific
  /\ RemotelyDeleted(1) # { }
  /\ \E ref \in RunReferences(1) :
       /\ ref.type = "tools"
       /\ ref.name = CanonicalName(1, "tools", ref.os)
       /\ ref.name \in OnlyOtherRoles(1)
       /\ ref.name \in runs[1].to_keep
       /\ ref.name \in store

\* C12: with only_job_specific false, every name the job's tasks reference under
\* a role of SAFE_TO_REMOVE is in the delete set, and every name referenced only
\* under other roles is in the keep set.
C12_AllAllowlistedDeleted ==
  \A c \in Callers :
    (Ran(c) /\ ~runs[c].only_job_specific)
      => /\ \A name \in AllowlistedNames(c) : name \in runs[c].to_delete
         /\ \A name \in OnlyOtherRoles(c) : name \in runs[c].to_keep

\* A container that does not bear the job's canonical name was deleted, and a
\* tools container was kept.
C12_Witness ==
  /\ runs[1].pc = "returned"
  /\ ~runs[1].only_job_specific
  /\ ~runs[1].dryrun
  /\ SharedContainer \in runs[1].to_delete
  /\ SharedContainer \in RemotelyDeleted(1)
  /\ \A ref \in RunReferences(1) :
       ref.name = SharedContainer => ref.name # CanonicalName(1, ref.type, ref.os)
  /\ OnlyOtherRoles(1) # { }
  /\ OnlyOtherRoles(1) \subseteq runs[1].to_keep

\* C13: with only_job_specific true, a name is in the delete set exactly if a
\* task of the job references it under a role of SAFE_TO_REMOVE and
\* build_container_name of that role, the job's project, name and build and that
\* task's os is the recorded name.
C13_JobSpecificDeleted ==
  \A c \in Callers :
    (Ran(c) /\ runs[c].only_job_specific)
      => \A name \in ReferencedNames(c) \cup runs[c].to_delete :
           name \in runs[c].to_delete
             <=> \E ref \in RunReferences(c) :
                   /\ ref.name = name
                   /\ ref.type \in SAFE_TO_REMOVE
                   /\ CanonicalName(c, ref.type, ref.os) = name

\* The setup container of a windows task was deleted and the setup container made
\* for the other platform, which the job references too, was kept.
C13_Witness ==
  /\ runs[1].pc = "returned"
  /\ runs[1].only_job_specific
  /\ \E ref \in RunReferences(1) :
       /\ ref.type = "setup"
       /\ ref.os = "windows"
       /\ ref.name \in runs[1].to_delete
       /\ ref.name # CanonicalName(1, "setup", "linux")
  /\ \E ref \in RunReferences(1) :
       /\ ref.type = "setup"
       /\ ref.name \in runs[1].to_keep
       /\ \E os \in OS : ref.name = CanonicalName(1, "setup", os)

\* The references of the tasks of the other jobs.
OtherReferences(c) ==
  UNION { References(jobs[k]) : k \in { j \in 1..Len(jobs) : jobs[j] # runs[c].res.value } }

\* Every reference of every task bears the name build_container_name gives for
\* its role, its job and its task's os.
NamedByBuildContainerName ==
  \A k \in 1..Len(jobs) :
    \A ref \in References(jobs[k]) :
      ref.name = build_container_name(ref.type, configs[k].project, configs[k].name,
                                      configs[k].build, ref.os)

\* C14: in job-specific mode, with every container named by build_container_name,
\* the cleanup of one job never deletes a container a task of another job
\* references, two jobs of one project and name with different builds included.
C14_OtherJobsUntouched ==
  \A c \in Callers :
    (Ran(c) /\ runs[c].only_job_specific /\ NamedByBuildContainerName)
      => \A ref \in OtherReferences(c) :
           /\ ref.name \notin runs[c].to_delete
           /\ ref.name \notin RemotelyDeleted(c)

\* C15: a call with dryrun true issues no remote delete and leaves the store as it
\* was, and its keep and delete sets are those of a call with dryrun false on the
\* same job and tasks.
C15_DryRun ==
  /\ \A c \in Callers : runs[c].dryrun => RemoteDeletes(c) = << >>
  /\ (runs[1].dryrun /\ runs[2].pc = "idle") => store = ReferencedBy(tasks)
  /\ (Ran(1) /\ Ran(2) /\ runs[1].dryrun # runs[2].dryrun)
       => /\ runs[1].to_delete = runs[2].to_delete
          /\ runs[1].to_keep = runs[2].to_keep

\* A dry run that would have deleted and kept containers, followed by a real run.
C15_Witness ==
  /\ runs[1].pc = "returned"
  /\ runs[1].dryrun
  /\ runs[1].to_delete # { }
  /\ runs[1].to_keep # { }
  /\ Len(runs[1].log) = Cardinality(runs[1].to_delete)
  /\ \A i \in 1..Len(runs[1].log) : runs[1].log[i].what = "container would be deleted"
  /\ runs[2].pc = "returned"
  /\ ~runs[2].dryrun
  /\ RemotelyDeleted(2) = runs[1].to_delete

\* C16: when a call with dryrun false has returned and the job is cleaned up
\* again with dryrun false, the second call does not raise, computes the same
\* delete set, is told by every remote delete that the container no longer
\* existed, and the containers stay absent.
C16_SecondRun ==
  (runs[1].pc = "returned" /\ ~runs[1].dryrun /\ runs[2].pc # "idle" /\ ~runs[2].dryrun)
    => /\ runs[2].pc # "raised"
       /\ runs[2].to_delete = runs[1].to_delete
       /\ \A i \in 1..Len(runs[2].log) :
            runs[2].log[i].what \in { "container already removed", "nothing to delete" }
       /\ runs[2].to_delete \cap store = { }
       /\ runs[2].pc = "deleting" => runs[2].pending # { }

\* The second call has gone through a delete set of two names.
C16_Witness ==
  /\ runs[1].pc = "returned"
  /\ ~runs[1].dryrun
  /\ runs[2].pc = "returned"
  /\ ~runs[2].dryrun
  /\ Cardinality(runs[1].to_delete) = 2
  /\ RemotelyDeleted(1) = runs[1].to_delete
  /\ Len(runs[2].log) = 2
  /\ \A i \in 1..2 : runs[2].log[i].what = "container already removed"

\* A request names an identifier: it is not the search of a list.
NamesIdentifier(request) == request.arg # None

\* A full identifier: a UUID, or the name of a pool the service has.
FullIdentifier(arg) ==
  \/ arg.type = "UUID"
  \/ \E k \in 1..Len(pools) : StrObj(pools[k]) = arg

\* C17: every operation that accepts a short-form identifier passes it through
\* the resolver before its own request, so that the request carries the resolved
\* full identifier and never the token as given.
C17_ResolvedBeforeRequest ==
  (pc = "done" /\ op # NoOp)
    => /\ res # NoRes
       /\ \A i \in 1..Len(sent) :
            NamesIdentifier(sent[i])
              => /\ res.raised = "none"
                 /\ sent[i].arg = res.value
                 /\ FullIdentifier(sent[i].arg)

\* C18: when the job has no task, or its tasks reference no container, the keep
\* and the delete set are empty, no remote delete is issued, and the call returns
\* without raising.
C18_NothingReferenced ==
  \A c \in Callers :
    (/\ runs[c].pc # "idle"
     /\ runs[c].res.raised = "none"
     /\ HasJob(runs[c].res.value)
     /\ RunReferences(c) = { })
      => /\ runs[c].pc = "returned"
         /\ runs[c].to_keep = { }
         /\ runs[c].to_delete = { }
         /\ RemoteDeletes(c) = << >>
         /\ store = ReferencedBy(tasks)

\* The job has a task without a container list and a task with an empty one.
C18_Witness ==
  /\ runs[1].pc = "returned"
  /\ ~runs[1].dryrun
  /\ \E t \in 1..Len(tasks) :
       tasks[t].job_id = runs[1].res.value /\ tasks[t].containers = << >>
  /\ \E t \in 1..Len(tasks) :
       tasks[t].job_id = runs[1].res.value /\ tasks[t].containers = << << >> >>
  /\ RunReferences(1) = { }
  /\ runs[1].log = << [what |-> "nothing to delete", name |-> << >>] >>

\* C19: the keep set and the delete set are disjoint, their union is the set of
\* the names the job's tasks reference, and the delete set is a subset of it.
C19_Partition ==
  \A c \in Callers :
    Ran(c) => /\ runs[c].to_keep \cap runs[c].to_delete = { }
              /\ runs[c].to_keep \cup runs[c].to_delete = ReferencedNames(c)
              /\ runs[c].to_delete \subseteq ReferencedNames(c)

\* Both sets have an element.
C19_Witness ==
  /\ runs[1].pc = "returned"
  /\ runs[1].to_keep # { }
  /\ runs[1].to_delete # { }
  /\ Cardinality(ReferencedNames(1)) >= 3

\* C20: with dryrun false the remote delete is called once for each name of the
\* delete set, one name after the other, and never for a name of the keep set or
\* a name the job's tasks do not reference.
C20_OneDeletePerName ==
  \A c \in Callers :
    (Ran(c) /\ ~runs[c].dryrun)
      => /\ \A i, j \in 1..Len(RemoteDeletes(c)) :
              RemoteDeletes(c)[i] = RemoteDeletes(c)[j] => i = j
         /\ RemotelyDeleted(c) \subseteq runs[c].to_delete
         /\ RemotelyDeleted(c) \cap runs[c].to_keep = { }
         /\ RemotelyDeleted(c) \subseteq ReferencedNames(c)
         /\ Len(RemoteDeletes(c)) + Cardinality(runs[c].pending)
              = Cardinality(runs[c].to_delete)
         /\ runs[c].pc = "returned" => RemotelyDeleted(c) = runs[c].to_delete

\* Two names were deleted, one was kept and the other job's containers remain.
C20_Witness ==
  /\ runs[1].pc = "returned"
  /\ ~runs[1].dryrun
  /\ Cardinality(runs[1].to_delete) = 2
  /\ Len(RemoteDeletes(1)) = 2
  /\ runs[1].to_keep # { }
  /\ runs[1].to_keep \subseteq store
  /\ store \ ReferencedNames(1) # { }

\* The rounds of caller c's loop that called the remote delete, the failed one
\* included.
DeleteCalls(c) ==
  SelectSeq(runs[c].log, LAMBDA e : e.what \in { "removed container",
                                                 "container already removed",
                                                 "exception" })

\* C21: when the remote delete of a container raises, the exception ends the
\* call: the failed delete is not issued again, the containers deleted before it
\* stay deleted, and no delete is issued for the names not yet processed.
C21_FailurePropagates ==
  \A c \in Callers :
    LET calls == DeleteCalls(c)
    IN  /\ \A i \in 1..Len(calls) :
             calls[i].what = "exception" => i = Len(calls) /\ runs[c].pc = "raised"
        /\ (runs[c].pc = "raised" /\ calls # << >>)
             => /\ calls[Len(calls)].what = "exception"
                /\ \A i, j \in 1..Len(calls) : calls[i].name = calls[j].name => i = j
                /\ \A i \in 1..(Len(calls) - 1) : calls[i].name \notin store
                /\ runs[c].pending
                     = runs[c].to_delete \ { calls[i].name : i \in 1..(Len(calls) - 1) }
                /\ calls[Len(calls)].name \in runs[c].pending

\* The second of three deletes failed: one container is gone, one was never tried.
C21_Witness ==
  /\ runs[1].pc = "raised"
  /\ Cardinality(runs[1].to_delete) = 3
  /\ Len(DeleteCalls(1)) = 2
  /\ DeleteCalls(1)[1].what = "removed container"
  /\ DeleteCalls(1)[1].name \notin store
  /\ DeleteCalls(1)[2].what = "exception"
  /\ Cardinality(runs[1].pending) = 2
  /\ runs[1].pending \subseteq store

\* C22: a name that a task of the job references under a role outside
\* SAFE_TO_REMOVE is never in the delete set, also when the same name is
\* referenced under an allowlisted role that passes the other tests.
C22_OtherRoleProtects ==
  \A c \in Callers :
    Ran(c) => \A ref \in RunReferences(c) :
                ref.type \notin SAFE_TO_REMOVE => ref.name \notin runs[c].to_delete

\* C23: in one resolution the enumerator is called once when the token fails the
\* fast-path check and not at all otherwise, whatever the outcome: a not-found
\* or ambiguous outcome is not retried, and every resolution enumerates anew.
C23_EnumeratedOnce ==
  Resolved => /\ Enumerations = res.calls
              /\ Enumerations = IF FastPath THEN 0 ELSE 1
              /\ Len(sent) = Enumerations + IF res.raised = "none" THEN 1 ELSE 0

\* A token that no candidate of a non-empty list starts with: one enumeration.
C23_Witness ==
  /\ Resolved
  /\ ~FastPath
  /\ Candidates # << >>
  /\ res.raised = "Unable to find based on prefix"
  /\ sent = << ListRequest >>

\* C24: whenever the resolution of a string returns, the value is the token
\* itself or a candidate that has the token as its leading part, letter case
\* observed; a candidate that holds the token further on, or matches it only up
\* to letter case, is never returned.
C24_ReturnedStartsWithToken ==
  (Resolved /\ res.raised = "none" /\ op.arg.type # "UUID")
    => \E x \in { Token } \cup { Candidates[i] : i \in Matching } :
         res.value = IF op.name = "Jobs.get" THEN UUID(x) ELSE StrObj(x)

\* The pool that starts with the token was returned; the other pool holds the
\* token in second place and starts with it only up to letter case.
C24_Witness ==
  /\ Resolved
  /\ op.name = "Pool.get"
  /\ Token = << "a" >>
  /\ Candidates = << << "A", "a" >>, << "a", "A" >> >>
  /\ res.raised = "none"
  /\ res.value = StrObj(<< "a", "A" >>)

\* The operation's resolution, had the enumerator returned the list given.
ResolutionOver(list) ==
  IF op.name = "Jobs.get"
    THEN disambiguate_uuid(FieldName, op.arg, list)
    ELSE disambiguate(FieldName, Token, "lambda x: False", list)

\* The candidates of a message: the pieces of its text between the commas.
SplitCommas(text) ==
  LET cuts == { 0, Len(text) + 1 } \cup { i \in 1..Len(text) : text[i] = "," }
  IN  { SubSeq(text, from + 1, to - 1) :
          << from, to >> \in { pair \in cuts \X cuts :
                                 /\ pair[1] < pair[2]
                                 /\ \A i \in cuts : ~(pair[1] < i /\ i < pair[2]) } }

\* What the caller can tell of an outcome, the order of the candidates named in
\* an error left aside.
Outcome(r) ==
  [raised |-> r.raised, value |-> r.value, name |-> r.name, token |-> r.token,
   values |-> IF r.values = << >> THEN { } ELSE SplitCommas(r.values)]

NoDuplicates(list) == \A i, j \in 1..Len(list) : list[i] = list[j] => i = j

Reorderings(list) ==
  { [i \in 1..Len(list) |-> list[p[i]]] : p \in Permutations(1..Len(list)) }

\* C25: for a candidate list without duplicates, the outcome of the resolution
\* (the identifier, or the kind of error and the set of candidates it names) is
\* the same for every order of the list.
C25_OrderIrrelevant ==
  (Resolved /\ NoDuplicates(Candidates))
    => /\ res = ResolutionOver(Candidates)
       /\ \A list \in Reorderings(Candidates) :
            Outcome(ResolutionOver(list)) = Outcome(res)

\* Two different candidates start with the token, which is one of them.
C25_Witness ==
  /\ Resolved
  /\ ~FastPath
  /\ Len(Candidates) = 2
  /\ Candidates[1] # Candidates[2]
  /\ Cardinality(Matching) = 2
  /\ Candidates[2] = Token
  /\ res.raised = "none"
  /\ ResolutionOver(<< Candidates[2], Candidates[1] >>).raised = "none"

\* 32 digits written in groups of 8, 4, 4, 4 and 12, with a hyphen after the
\* k-th group for the k in present.
Grouped(d, present) ==
  LET hyphen(k) == IF k \in present THEN << "-" >> ELSE << >>
  IN  SubSeq(d, 1, 8) \o hyphen(1) \o SubSeq(d, 9, 12) \o hyphen(2)
        \o SubSeq(d, 13, 16) \o hyphen(3) \o SubSeq(d, 17, 20) \o hyphen(4)
        \o SubSeq(d, 21, 32)

\* The text is 32 digits of [a-f0-9] grouped with the hyphens of one of the sets.
GroupedWith(text, sets) ==
  LET d == SelectSeq(text, LAMBDA c : c # "-")
  IN  /\ Len(d) = 32
      /\ \A i \in 1..32 : d[i] \in LowerHex
      /\ \E present \in sets : text = Grouped(d, present)

\* Jobs.get was given a string.
GivenText == pc = "done" /\ op.name = "Jobs.get" /\ op.arg.type = "str"

\* The string passed the check: it was parsed as it is, with no prefix search.
Accepted == Enumerations = 0 /\ res.raised = "none" /\ res.value = UUID(Token)

\* C26: is_uuid accepts a string exactly if it is 32 hexadecimal digits grouped
\* 8-4-4-4-12 with all four hyphens or with none; every other string goes to the
\* prefix search.
C26_AllOrNoHyphens ==
  GivenText => /\ Accepted <=> GroupedWith(Token, { { }, 1..4 })
               /\ ~Accepted => Enumerations = 1

\* C26 as the code has it: each of the four hyphens may be there or not,
\* independently of the others, and the digits are those of [a-f0-9].
C26_EachHyphenOptional ==
  GivenText => /\ Accepted <=> GroupedWith(Token, SUBSET (1..4))
               /\ ~Accepted => Enumerations = 1

\* A job id written with its first hyphen only was accepted.
C26_Witness ==
  /\ GivenText
  /\ Accepted
  /\ Len(Token) = 33
  /\ Token[9] = "-"
  /\ GroupedWith(Token, { { 1 } })

\* The remote deletes of either caller that reported that the container existed.
ReportedExisting(name) ==
  { << c, i >> \in Callers \X (1..(2 * Cardinality(ReferencedBy(tasks)))) :
      /\ i <= Len(runs[c].log)
      /\ runs[c].log[i] = [what |-> "removed container", name |-> name] }

\* C27: two calls on the same job with dryrun false, their remote deletes
\* interleaved in any order, both come to their end without raising; then every
\* container of the delete sets is absent, and of each container that existed
\* at the start exactly one remote delete has reported that it existed.
C27_Interleaved ==
  /\ \A c \in Callers :
       /\ (runs[c].res.raised = "none" /\ HasJob(runs[c].res.value))
            => runs[c].pc # "raised"
       /\ runs[c].pc = "deleting" => runs[c].pending # { }
  /\ \A name \in ReferencedBy(tasks) : Cardinality(ReportedExisting(name)) <= 1
  /\ (runs[1].pc = "returned" /\ runs[2].pc = "returned")
       => \A name \in runs[1].to_delete \cup runs[2].to_delete :
            /\ name \notin store
            /\ name \in ReferencedBy(tasks)
            /\ Cardinality(ReportedExisting(name)) = 1

\* Both callers have deleted the same two names, each being first for one of them.
C27_Witness ==
  /\ runs[1].pc = "returned"
  /\ runs[2].pc = "returned"
  /\ Cardinality(runs[1].to_delete) = 2
  /\ runs[2].to_delete = runs[1].to_delete
  /\ \E c \in Callers :
       /\ runs[c].log[1].what = "removed container"
       /\ runs[c].log[2].what = "container already removed"
  /\ \A c \in Callers :
       \E i \in 1..2 : runs[c].log[i].what = "removed container"

\* C28: an empty token never takes the fast path and every candidate starts
\* with it: one candidate is the result, two or more make the resolution fail as
\* ambiguous naming them all, and an empty list makes it fail as not found.
C28_EmptyToken ==
  (Resolved /\ op.arg.type = "str" /\ Token = << >>)
    => /\ Enumerations = 1
       /\ Len(Candidates) = 1
            => /\ res.raised = "none"
               /\ ReturnedText = Candidates[1]
               /\ sent[2].arg = res.value
       /\ Len(Candidates) > 1
            => /\ res.raised = "expands to multiple values"
               /\ res.values = Join(<< "," >>, Candidates)
               /\ NoIdentifierUsed
       /\ Len(Candidates) = 0
            => /\ res.raised = "Unable to find based on prefix"
               /\ NoIdentifierUsed

\* Jobs.get("") with a single job: the job is found.
C28_Witness ==
  /\ Resolved
  /\ op = [name |-> "Jobs.get", arg |-> StrObj(<< >>)]
  /\ Len(jobs) = 1
  /\ res.raised = "none"
  /\ res.value = jobs[1]
  /\ Len(sent) = 2

\* The ':'-joined string that is hashed for a role, a job's key and an os.
JoinedKey(type, config, os) ==
  ColonJoined(DigestParts([container_type |-> type, project |-> config.project,
                           name |-> config.name, build |-> config.build,
                           platform |-> os]))

\* Two keys that differ and give the same joined string for the role.
Colliding(type, config, other, os) ==
  /\ << config.project, config.name >> # << other.project, other.name >>
  /\ JoinedKey(type, config, os) = JoinedKey(type, other, os)

\* C29: the name depends on the key only through its ':'-joined string: two
\* different keys with equal joined strings give the same container name for the
\* same role (the keys are fixed once the jobs exist, so this is looked at
\* before the first call), and the job-specific test of one such job accepts
\* the container of the other.
C29_JoinedStringCollision ==
  /\ (runs[1].pc = "idle" /\ runs[2].pc = "idle")
       => \A j, k \in 1..Len(configs) : \A type \in ContainerType, os \in OS :
            Colliding(type, configs[j], configs[k], os)
              => build_container_name(type, configs[j].project, configs[j].name,
                                      configs[j].build, os)
                   = build_container_name(type, configs[k].project, configs[k].name,
                                          configs[k].build, os)
  /\ \A c \in Callers :
       (Ran(c) /\ runs[c].only_job_specific)
         => \A k \in 1..Len(jobs) : \A ref \in RunReferences(c) :
              (/\ ref.type \in SAFE_TO_REMOVE
               /\ Colliding(ref.type, JobOf(runs[c].res.value).config, configs[k], ref.os)
               /\ ref.name = build_container_name(ref.type, configs[k].project,
                                                  configs[k].name, configs[k].build,
                                                  ref.os))
                => ref.name \in runs[c].to_delete

\* The job of project a and name b:c has deleted the setup container of the job
\* of project a:b and name c.
C29_Witness ==
  /\ runs[1].pc = "returned"
  /\ runs[1].only_job_specific
  /\ ~runs[1].dryrun
  /\ configs[1] = JobConfig(Chars("a"), Chars("b:c"), << "1" >>)
  /\ configs[2] = JobConfig(Chars("a:b"), Chars("c"), << "1" >>)
  /\ \E ref \in OtherReferences(1) :
       /\ ref.type = "setup"
       /\ ref.name = build_container_name("setup", Chars("a:b"), Chars("c"), << "1" >>,
                                          ref.os)
       /\ ref.name \in RemotelyDeleted(1)

=============================================================================
